---- MODULE Spec2Model ----
(***************************************************************************)
(* Visibility windows of a GRB on a site (src/visibility.py).              *)
(*                                                                         *)
(* Visibility.compute is followed statement by statement: the night        *)
(* finder, the Moon altitude finder and its brightness/distance filter,    *)
(* the horizon finder, then the tick sweep and the flags.  The ephemeris   *)
(* (astroplan Observer) is the environment: every query is answered by a   *)
(* nondeterministic instant that respects the direction of the query       *)
(* ("next" strictly later, "previous" not later) or, for the first query   *)
(* of a finder, by the undefined instant (jd = NaN).                       *)
(*                                                                         *)
(* Julian days are even integers, so that the middle of two ticks,         *)
(* 0.5*(t1+t2), is an integer.  An astropy Time is a record [jd |-> x]; a  *)
(* bare number is a float.                                                 *)
(***************************************************************************)
EXTENDS Integers, Sequences, FiniteSets, TLC

\* ------------------------------------------------------------------ bounds
\* Julian days run over 0, 2, ..., 2*MaxTick
MaxTick == 4
\* The data last 0, 2, ..., 2*MaxSpan days
MaxSpan == 2
\* Number of leading nights to omit: 0..MaxSkip
MaxSkip == 1

\* ----------------------------------------------------------- time values
\* jd of an undefined instant (math.isnan(t.jd))
NaN == -1

Jd == {2 * k : k \in 0..MaxTick}

\* Every instant of the time line, ticks and middles of ticks
Instants == 0..(2 * MaxTick)

\* astropy Time(x, format="jd")
Time(x) == [jd |-> x]

isfinite(x) == x # NaN

\* A time in jd format if the argument is finite, the argument otherwise
Df(x) == IF isfinite(x) THEN Time(x) ELSE x

\* Df(x) is a Time, and not the bare float x
DfIsTime(x) == isfinite(x)

\* Time.__lt__ : false as soon as one side is undefined
TimeLt(a, b) == isfinite(a.jd) /\ isfinite(b.jd) /\ a.jd < b.jd

\* ------------------------------------------------------------- ephemeris
\* Answers of a "next" / "previous" query made at Time t (never undefined
\* when the query instant is defined; undefined when it is not)
NextAfter_same(t) == IF isfinite(t.jd)
                     THEN {Time(x) : x \in {y \in Jd : y >= t.jd}}
                     ELSE {Time(NaN)}

NextAfter(t) == IF isfinite(t.jd) THEN {Time(x) : x \in {y \in Jd : y > t.jd}}
                ELSE {Time(NaN)}

PreviousBefore(t) == {Time(x) : x \in {y \in Jd : y <= t.jd}}

Which(search, t) ==
  IF search = "previous" THEN PreviousBefore(t) ELSE NextAfter(t)

Undefined == {Time(NaN)}

\* Answers of the morning twilight query made at dusk.  The time line is
\* long enough : when the search goes on after this night (dusk before
\* stop), a later night can still be answered
NextDawn(dusk, stop) ==
  {d \in NextAfter(dusk) :
     TimeLt(dusk, stop) => d.jd + 4 <= 2 * MaxTick}

\* moon_illumination(t) and the separation of the Moon to the target, in
\* units where the default thresholds are the largest light and the
\* smallest distance
Light == 0..1
Dist == 0..1
moon_maxlight == 1
moon_mindist == 0

\* --------------------------------------------------------------- windows
\* The list holding one empty pair, used for "no window"
NoWindow == << <<>> >>

Last(s) == s[Len(s)]

VARIABLES
  pc,              \* position in compute
  err,             \* "none", or the reason the computation stopped
  force_vis,       \* parameter of compute
  skip,            \* parameter of compute
  tstart,          \* cls.tstart (= grb.t_trig)
  tstop,           \* cls.tstop
  status,          \* cls.status
  is_night,        \* nights : is the trigger during night
  t_dusk, t_dawn,  \* nights : current twilight pair
  inight,          \* nights : night counter
  tnights,         \* nights : list being built
  t_night,         \* compute : list returned by nights
  t_rise, t_set,   \* moon_alt_veto / horizon : current rise and set
  tmoons,          \* moon_alt_veto : list being built
  t_moon_alt_veto, \* compute : list returned by moon_alt_veto
  imoon,           \* compute : position of the filter loop
  t_moon_veto,     \* compute : confirmed Moon vetoes
  moon_too_bright, \* cls.moon_too_bright
  moon_too_close,  \* cls.moon_too_close
  sampled,         \* moonlight_veto : light and distance of the last call
  high,            \* horizon : is the target up at trigger
  t_above,         \* horizon list (being built, then returned)
  nquery,          \* number of rise/set queries made by horizon
  no_night,        \* the first twilight query located no dusk
  ticks,           \* compute : sorted ticks
  t_vis,           \* compute : visibility windows in jd
  t_true, t_twilight, t_event, t_moon_up,   \* cls window lists
  vis, vis_night, vis_prompt,               \* cls flags
  ord,             \* the finders called in a chosen order : the sky (obs),
                   \* the order, the number of finders called so far (ran,
                   \* 4 after the merge), the object (cls), the values
                   \* returned (ret) and the outcome of the merge (final)
  fs,              \* write and read : the instance that is written (obj),
                   \* the files (disk), the file name of the last read
                   \* (asked), what it returned (loaded) and the position
                   \* (pc) : "run", "read" or "exit" (sys.exit)
  drv,             \* the driver : its position (pc), the reason it stopped
                   \* (err), the origin of the visibilities (cfvis), the
                   \* GRB (igrb) and the site (iloc) being processed,
                   \* grb.vis (gvis), the cases for which mc.run ran
                   \* (started) and those given to mcres.result (records)
  sub              \* subset_ids : its position (pc), its arguments (nmax,
                   \* nsets), its locals (ids_low, ids_high, dsets, ids the
                   \* position of the counting loop, icount) and the value
                   \* it returned (ret)

\* The variables of one call of compute
computeVars ==
        <<pc, err, force_vis, skip, tstart, tstop, status, is_night, t_dusk,
          t_dawn, inight, tnights, t_night, t_rise, t_set, tmoons,
          t_moon_alt_veto, imoon, t_moon_veto, moon_too_bright,
          moon_too_close, sampled, high, t_above, nquery, no_night, ticks,
          t_vis,
          t_true, t_twilight, t_event, t_moon_up, vis, vis_night, vis_prompt>>

vars == <<computeVars, ord, fs, drv, sub>>

\* Variables of the result object written only at the end of compute
result == <<ticks, t_vis, t_true, t_twilight, t_event, t_moon_up,
            vis_night, vis_prompt>>

nightsVars == <<is_night, t_dusk, t_dawn, inight, tnights, t_night, no_night>>

moonVars == <<tmoons, t_moon_alt_veto, imoon, t_moon_veto, moon_too_bright,
              moon_too_close, sampled>>

horizonVars == <<high, t_above, nquery>>

\* Left alone by every step of compute
params == <<force_vis, skip, tstart, status, ord, fs, drv, sub>>

\* ------------------------------------------------------------------ Init
\* State after the constructor call and the parameter decoding of compute
\* (lines 347-368) : full visibility over the data, no Moon period
InitCompute ==
  /\ pc = "nights"
  /\ err = "none"
  /\ force_vis \in BOOLEAN
  /\ skip \in 0..MaxSkip
  /\ tstart = Time(2)
  /\ tstop \in {Time(tstart.jd + 2 * d) : d \in 0..MaxSpan}
  /\ tstop.jd + 2 <= 2 * MaxTick
  /\ status = "Updated"
  /\ is_night = FALSE
  /\ t_dusk = Time(NaN) /\ t_dawn = Time(NaN)
  /\ inight = 0
  /\ tnights = <<>> /\ t_night = <<>>
  /\ t_rise = Time(NaN) /\ t_set = Time(NaN)
  /\ tmoons = <<>> /\ t_moon_alt_veto = <<>>
  /\ imoon = 0
  /\ t_moon_veto = <<>>
  /\ moon_too_bright = <<>> /\ moon_too_close = <<>>
  /\ sampled = <<>>
  /\ high = FALSE
  /\ t_above = <<>>
  /\ nquery = 0
  /\ no_night = FALSE
  /\ ticks = <<>> /\ t_vis = <<>>
  /\ t_true = << <<tstart, tstop>> >>
  /\ t_twilight = << <<tstart, tstop>> >>
  /\ t_event = << <<tstart, tstop>> >>
  /\ t_moon_up = NoWindow
  /\ vis = TRUE /\ vis_night = TRUE /\ vis_prompt = TRUE

\* No call of compute is running : an object just constructed
ComputeIdle ==
  /\ InitCompute
  /\ force_vis = FALSE /\ skip = 0
  /\ tstop = tstart

\* The finders are called in the order of compute only
OrderIdle == ord = <<>>

\* Nothing is written or read
FileIdle == fs = <<>>

\* No GRB list is processed
DriverIdle == drv = <<>>

\* No list of identifiers is split
SubsetIdle == sub = <<>>

Init == InitCompute /\ OrderIdle /\ FileIdle /\ DriverIdle /\ SubsetIdle

\* ---------------------------------------------------------------- nights
\* Forced visibility : a single night covers all the data
ForceNights ==
  /\ pc = "nights" /\ force_vis
  /\ t_night' = << <<tstart.jd, tstop.jd>> >>
  /\ is_night' = TRUE
  /\ pc' = "moon"
  /\ UNCHANGED <<err, params, tstop, t_dusk, t_dawn, inight, tnights,
                 no_night, t_rise, t_set, moonVars, horizonVars, result, vis>>

\* Variant : the first night is never omitted
FirstKept_always(nskip) == TRUE

\* The first night is kept unless nights are to be omitted
FirstKept(nskip) == nskip = 0

\* The first night : can be the current night; omitted if skip is not 0
NightsFirst ==
  /\ pc = "nights" /\ ~force_vis
  /\ \E night \in BOOLEAN :
       LET search == IF night THEN "previous" ELSE "next" IN
       \E dusk \in Which(search, tstart) \cup Undefined :
       \E dawn \in NextDawn(dusk, tstop) :
         /\ is_night' = night
         /\ t_dusk' = dusk
         /\ t_dawn' = dawn
         /\ no_night' = (~night /\ ~isfinite(dusk.jd))
         /\ tnights' = IF FirstKept(skip) THEN << <<dusk.jd, dawn.jd>> >>
                       ELSE <<>>
  /\ inight' = 1
  /\ pc' = "nights_loop"
  /\ UNCHANGED <<err, params, tstop, t_night, t_rise, t_set, moonVars,
                 horizonVars, result, vis>>

\* Variant : the night that follows the omitted ones is omitted too
Kept_strict(n, nskip) == n > nskip

\* After n nights, the next one is kept if the nights to omit are passed
Kept(n, nskip) == n >= nskip

\* The instant from which the next dusk is searched
NightsFrom(start, dawn) == dawn

\* Variant : the nights are added until a dawn reaches the end of the data
NightsGoOn_dawn(dusk, dawn, stop) == TimeLt(dawn, stop)

\* while (t_dusk < self.tstop)
NightsGoOn(dusk, dawn, stop) == TimeLt(dusk, stop)

\* Subsequent nights until reaching the end of the GRB data
NightsLoop ==
  /\ pc = "nights_loop" /\ NightsGoOn(t_dusk, t_dawn, tstop)
  /\ \E dusk \in NextAfter(NightsFrom(tstart, t_dawn)) :
     \E dawn \in NextDawn(dusk, tstop) :
       /\ t_dusk' = dusk
       /\ t_dawn' = dawn
       /\ tnights' = IF Kept(inight, skip)
                     THEN Append(tnights, <<dusk.jd, dawn.jd>>)
                     ELSE tnights
  /\ inight' = inight + 1
  /\ UNCHANGED <<pc, err, params, tstop, is_night, t_night, no_night, t_rise,
                 t_set, moonVars, horizonVars, result, vis>>

\* End of nights : sys.exit if the list is empty
NightsReturn ==
  /\ pc = "nights_loop" /\ ~NightsGoOn(t_dusk, t_dawn, tstop)
  /\ IF Len(tnights) = 0
     THEN /\ pc' = "exit"
          /\ err' = "No night found"
          /\ UNCHANGED t_night
     ELSE /\ pc' = "moon"
          /\ t_night' = tnights
          /\ UNCHANGED err
  /\ UNCHANGED <<params, tstop, is_night, t_dusk, t_dawn, inight, tnights,
                 no_night, t_rise, t_set, moonVars, horizonVars, result, vis>>

\* ------------------------------------------------------------------ Moon
\* Forced visibility : the Moon period lists are empty
ForceMoon ==
  /\ pc = "moon" /\ force_vis
  /\ t_moon_alt_veto' = NoWindow
  /\ t_moon_veto' = NoWindow
  /\ pc' = "horizon"
  /\ UNCHANGED <<err, params, tstop, nightsVars, t_rise, t_set, tmoons, imoon,
                 moon_too_bright, moon_too_close, sampled, horizonVars,
                 result, vis>>

\* moon_alt_veto : first period with the Moon above moon_maxalt, or no veto
\* period if the Moon never rises
MoonFirst ==
  /\ pc = "moon" /\ ~force_vis
  /\ \E up \in BOOLEAN :
       LET search == IF up THEN "previous" ELSE "next" IN
       \E rise \in Which(search, tstart) \cup Undefined :
         IF ~isfinite(rise.jd)
         THEN /\ t_moon_alt_veto' = NoWindow
              /\ t_moon_veto' = <<>>
              /\ imoon' = 1
              /\ pc' = "moonlight"
              /\ t_rise' = rise
              /\ UNCHANGED <<t_set, tmoons>>
         ELSE \E set \in NextAfter(rise) :
              /\ t_rise' = rise
              /\ t_set' = set
              /\ tmoons' = << <<rise.jd, set.jd>> >>
              /\ pc' = "moon_loop"
              /\ UNCHANGED <<t_moon_alt_veto, t_moon_veto, imoon>>
  /\ UNCHANGED <<err, params, tstop, nightsVars, moon_too_bright,
                 moon_too_close, sampled, horizonVars, result, vis>>

\* moon_alt_veto : subsequent periods until reaching the end of the data
MoonLoop ==
  /\ pc = "moon_loop" /\ t_set.jd < tstop.jd
  /\ \E rise \in NextAfter(t_set) :
     \E set \in NextAfter(rise) :
       /\ t_rise' = rise
       /\ t_set' = set
       /\ tmoons' = Append(tmoons, <<rise.jd, set.jd>>)
  /\ UNCHANGED <<pc, err, params, tstop, nightsVars, t_moon_alt_veto, imoon,
                 t_moon_veto, moon_too_bright, moon_too_close, sampled,
                 horizonVars, result, vis>>

MoonReturn ==
  /\ pc = "moon_loop" /\ ~(t_set.jd < tstop.jd)
  /\ t_moon_alt_veto' = IF Len(tmoons) > 0 THEN tmoons ELSE NoWindow
  /\ t_moon_veto' = <<>>
  /\ imoon' = 1
  /\ pc' = "moonlight"
  /\ UNCHANGED <<err, params, tstop, nightsVars, t_rise, t_set, tmoons,
                 moon_too_bright, moon_too_close, sampled, horizonVars,
                 result, vis>>

\* Variant : the light and the distance are looked at at the rise only
moonlight_veto_rise(dt, light, dist) ==
  LET too_bright == \E i \in 1..Len(dt) : i = 1 /\ light[i] >= moon_maxlight
      too_close  == \E i \in 1..Len(dt) : i = 1 /\ dist[i] <= moon_mindist
  IN  <<too_bright, too_close>>

\* moonlight_veto(dt) : light[i] and dist[i] are the illumination and the
\* distance to the source sampled at dt[i]
moonlight_veto(dt, light, dist) ==
  LET too_bright == \E i \in 1..Len(dt) : light[i] >= moon_maxlight
      too_close  == \E i \in 1..Len(dt) : dist[i] <= moon_mindist
  IN  <<too_bright, too_close>>

\* Variant : only the brightness confirms a veto
Confirmed_bright(too_bright, too_close) == too_bright

\* The Moon period is added to the Moon veto
Confirmed(too_bright, too_close) == too_bright \/ too_close

\* One turn of the loop over the Moon periods : keep the period if the Moon
\* is too bright or too close
MoonlightVeto ==
  /\ pc = "moonlight" /\ imoon <= Len(t_moon_alt_veto)
  /\ LET dt == t_moon_alt_veto[imoon] IN
     \E light \in [1..Len(dt) -> Light] :
     \E dist \in [1..Len(dt) -> Dist] :
       LET veto == moonlight_veto(dt, light, dist) IN
       /\ sampled' = <<light, dist>>
       /\ moon_too_bright' = Append(moon_too_bright, veto[1])
       /\ moon_too_close' = Append(moon_too_close, veto[2])
       /\ t_moon_veto' = IF Confirmed(veto[1], veto[2])
                         THEN Append(t_moon_veto, dt)
                         ELSE t_moon_veto
  /\ imoon' = imoon + 1
  /\ UNCHANGED <<pc, err, params, tstop, nightsVars, t_rise, t_set, tmoons,
                 t_moon_alt_veto, horizonVars, result, vis>>

\* No Moon veto period : conclude with the list of one empty pair
MoonVetoDone ==
  /\ pc = "moonlight" /\ imoon > Len(t_moon_alt_veto)
  /\ t_moon_veto' = IF Len(t_moon_veto) = 0 THEN NoWindow ELSE t_moon_veto
  /\ sampled' = <<>>
  /\ pc' = "horizon"
  /\ UNCHANGED <<err, params, tstop, nightsVars, t_rise, t_set, tmoons,
                 t_moon_alt_veto, imoon, moon_too_bright, moon_too_close,
                 horizonVars, result, vis>>

\* --------------------------------------------------------------- horizon
\* Variant : the circumpolar window stops at the trigger
HorizonUndefined_trig(up, t0, t1) ==
  IF up THEN << <<t0.jd, t0.jd>> >> ELSE NoWindow

\* Rise time undefined : the GRB is always above or always below the horizon
HorizonUndefined(up, t0, t1) ==
  IF up THEN << <<t0.jd, t1.jd>> >> ELSE NoWindow

\* First period above the horizon : can be the present period
HorizonFirst ==
  /\ pc = "horizon"
  /\ \E up \in BOOLEAN :
       LET search == IF up THEN "previous" ELSE "next" IN
       \E rise \in Which(search, tstart) \cup Undefined :
         /\ high' = up
         /\ t_rise' = rise
         /\ IF ~isfinite(rise.jd)
            THEN /\ vis' = up
                 /\ t_above' = HorizonUndefined(up, tstart, tstop)
                 /\ nquery' = nquery + 1
                 /\ pc' = "merge"
                 /\ UNCHANGED t_set
            ELSE \E set \in NextAfter(rise) :
                 /\ vis' = TRUE
                 /\ t_set' = set
                 /\ t_above' = << <<rise.jd, set.jd>> >>
                 /\ nquery' = nquery + 2
                 /\ pc' = "horizon_loop"
  /\ UNCHANGED <<err, params, tstop, nightsVars, moonVars, result>>

\* Variant : the next rise is searched from the previous rise
HorizonFrom_rise(rise, set) == rise

\* The instant from which the next rise is searched
HorizonFrom(rise, set) == set

\* Subsequent above-horizon periods until the end of the GRB data
HorizonLoop ==
  /\ pc = "horizon_loop" /\ TimeLt(t_set, tstop)
  /\ \E rise \in NextAfter(HorizonFrom(t_rise, t_set)) :
     \E set \in NextAfter(rise) :
       /\ t_rise' = rise
       /\ t_set' = set
       /\ t_above' = Append(t_above, <<rise.jd, set.jd>>)
  /\ nquery' = nquery + 2
  /\ UNCHANGED <<pc, err, params, tstop, nightsVars, moonVars, high, result,
                 vis>>

HorizonReturn ==
  /\ pc = "horizon_loop" /\ ~TimeLt(t_set, tstop)
  /\ pc' = "merge"
  /\ UNCHANGED <<err, params, tstop, nightsVars, t_rise, t_set, moonVars,
                 horizonVars, result, vis>>

\* ----------------------------------------------------------------- merge
\* Variant : the end of the slices is not looked at
valid_open(t0, tslices) ==
  IF Len(tslices[1]) = 0 THEN FALSE
  ELSE \E i \in 1..Len(tslices) : t0 >= tslices[i][1]

\* Variant : a list of one empty pair lets every instant in
valid_vacuous(t0, tslices) ==
  IF Len(tslices[1]) = 0 THEN TRUE
  ELSE \E i \in 1..Len(tslices) : t0 >= tslices[i][1] /\ t0 <= tslices[i][2]

\* Is t0 inside one of the slices (a list of one empty pair has no slice)
valid(t0, tslices) ==
  IF Len(tslices[1]) = 0 THEN FALSE
  ELSE \E i \in 1..Len(tslices) : t0 >= tslices[i][1] /\ t0 <= tslices[i][2]

\* for elt in windows : tk.extend(elt)
RECURSIVE extend(_, _)
extend(tk, windows) ==
  IF Len(windows) = 0 THEN tk
  ELSE extend(tk \o Head(windows), Tail(windows))

\* The sorted ticks of all periods, after the ticks of the data
Ticks(first, night, above, moon) ==
  SortSeq(extend(extend(extend(first, night), above), moon),
          LAMBDA a, b : a < b)

\* Variant : the data window is not looked at
visible_nobright(t1, t2, start, stop, night, above, moon) ==
  LET tmid == (t1 + t2) \div 2
  IN  valid(tmid, night) /\ valid(tmid, above) /\ ~valid(tmid, moon)

\* bright and dark and above and not_moon, at the middle of the ticks
visible(t1, t2, start, stop, night, above, moon) ==
  LET tmid     == (t1 + t2) \div 2
      bright   == valid(tmid, << <<start.jd, stop.jd>> >>)
      dark     == valid(tmid, night)
      isabove  == valid(tmid, above)
      not_moon == ~valid(tmid, moon)
  IN  bright /\ dark /\ isabove /\ not_moon

\* Variant : visible tick pairs that follow each other make one window
TVis_coalesced(tk, start, stop, night, above, moon) ==
  LET ok(i) == visible(tk[i], tk[i + 1], start, stop, night, above, moon)
      starts == SelectSeq([i \in 1..(Len(tk) - 1) |-> i],
                          LAMBDA i : ok(i) /\ (i = 1 \/ ~ok(i - 1)))
      end(i) == CHOOSE j \in i..(Len(tk) - 1) :
                  /\ \A k \in i..j : ok(k)
                  /\ (j = Len(tk) - 1 \/ ~ok(j + 1))
  IN  [k \in 1..Len(starts) |-> <<tk[starts[k]], tk[end(starts[k]) + 1]>>]

\* Variant : a pair of equal ticks gives no window
TVis_positive(tk, start, stop, night, above, moon) ==
  LET pairs == [i \in 1..(Len(tk) - 1) |-> <<tk[i], tk[i + 1]>>] IN
  SelectSeq(pairs, LAMBDA p :
              /\ p[1] < p[2]
              /\ visible(p[1], p[2], start, stop, night, above, moon))

\* The tick pairs where the GRB is visible
TVis(tk, start, stop, night, above, moon) ==
  LET pairs == [i \in 1..(Len(tk) - 1) |-> <<tk[i], tk[i + 1]>>] IN
  SelectSeq(pairs, LAMBDA p :
              visible(p[1], p[2], start, stop, night, above, moon))

\* Write an interval list back into Time
WriteBack(windows) ==
  IF Len(windows[1]) = 0 THEN NoWindow
  ELSE [i \in 1..Len(windows) |->
          <<Df(windows[i][1]), Df(windows[i][2])>>]

\* At least a period above the horizon
FlagVis(above) == Len(above) > 0

\* Variant : the flag is set even without a window
FlagVisNight_any(windows) == Len(windows) >= 0

\* At least a visibility period for observation
FlagVisNight(windows) == Len(windows) > 0

\* Variant : the trigger has to be strictly after the start of the window
FlagVisPrompt_strict(trig, windows) ==
  Len(windows) > 0 /\ trig.jd > windows[1][1] /\ trig.jd <= windows[1][2]

\* In the first window the prompt is visible
FlagVisPrompt(trig, windows) ==
  Len(windows) > 0 /\ valid(trig.jd, <<windows[1]>>)

\* Variant : without visibility window the list is left empty
TTrue_empty(windows) ==
  [i \in 1..Len(windows) |-> <<Df(windows[i][1]), Df(windows[i][2])>>]

\* The visibility windows stored in the class
TTrue(windows) ==
  IF Len(windows) > 0
  THEN [i \in 1..Len(windows) |-> <<Df(windows[i][1]), Df(windows[i][2])>>]
  ELSE NoWindow

\* Variant : the end of the first night
LastNight_first(night) == night[1][2]

\* The end of the last night, where the analysis stops if the data go on
LastNight(night) == Last(night)[2]

\* Ticks, visibility of all tick intervals, write back, flags.  The end of
\* the last night is a bare float when it is undefined : comparing it to
\* the Time cls.tstop raises TypeError
Merge ==
  /\ pc = "merge"
  /\ IF ~DfIsTime(LastNight(t_night))
     THEN /\ pc' = "raised"
          /\ err' = "TypeError"
          /\ UNCHANGED <<tstop, result, vis>>
     ELSE LET shortened == TimeLt(tstop, Df(LastNight(t_night)))
              first == IF shortened THEN <<tstart.jd, tstop.jd>>
                       ELSE <<tstart.jd>>
              stop  == IF shortened THEN tstop ELSE Df(LastNight(t_night))
              tk    == Ticks(first, t_night, t_above, t_moon_veto)
              tv    == TVis(tk, tstart, stop, t_night, t_above, t_moon_veto)
          IN  /\ tstop' = stop
              /\ ticks' = tk
              /\ t_vis' = tv
              /\ t_twilight' = WriteBack(t_night)
              /\ t_event' = WriteBack(t_above)
              /\ t_moon_up' = WriteBack(t_moon_alt_veto)
              /\ vis' = FlagVis(t_above)
              /\ vis_night' = FlagVisNight(tv)
              /\ vis_prompt' = FlagVisPrompt(tstart, tv)
              /\ t_true' = TTrue(tv)
              /\ pc' = "done"
              /\ UNCHANGED err
  /\ UNCHANGED <<params, nightsVars, t_rise, t_set, moonVars, horizonVars>>

Next ==
  \/ ForceNights \/ NightsFirst \/ NightsLoop \/ NightsReturn
  \/ ForceMoon \/ MoonFirst \/ MoonLoop \/ MoonReturn
  \/ MoonlightVeto \/ MoonVetoDone
  \/ HorizonFirst \/ HorizonLoop \/ HorizonReturn
  \/ Merge

Spec == Init /\ [][Next]_vars

\* One call with the first candidate night kept and a data window of one
\* tick; the ephemeris answers range over the whole time line.  compute
\* runs on its own thread of control and is never suspended.
InitLive ==
  /\ Init
  /\ skip = 0
  /\ tstop = Time(4)

SpecLive == InitLive /\ [][Next]_vars /\ WF_vars(Next)

\* ------------------------------------------- the finders as functions
\* A sky with a fixed timetable : a body is up from phase to phase + len,
\* again every period.  The same query always gets the same answer, so the
\* finders can be called in several orders and their results compared.
DayLen == 4
MoonLen == 6

Schedule(ph, ln, per) == [phase |-> ph, len |-> ln, period |-> per]

\* A body that never rises, a body that never sets
NeverUp == Schedule(0, 0, DayLen)
AlwaysUp == Schedule(0, DayLen, DayLen)

Periodic(s) == 0 < s.len /\ s.len < s.period

NightSchedules == {Schedule(2 * a, 2, DayLen) : a \in 0..1}

MoonSchedules ==
  {Schedule(2 * a, 2 * b, MoonLen) : a \in 0..2, b \in 1..2} \cup {NeverUp}

TargetSchedules ==
  {Schedule(2 * a, 2, DayLen) : a \in 0..1} \cup {NeverUp, AlwaysUp}

Skies == [night : NightSchedules, moon : MoonSchedules,
          target : TargetSchedules, light : Light, dist : Dist]

\* obs.is_night, obs.target_is_up, Moon altitude above moon_maxalt
IsUp(s, t) == (t.jd - s.phase) % s.period < s.len

\* twilight_evening / *_rise_time : undefined for a body that never rises
\* or never sets
RiseTime(s, t, which) ==
  IF ~Periodic(s) \/ ~isfinite(t.jd) THEN Time(NaN)
  ELSE LET prev == t.jd - ((t.jd - s.phase) % s.period)
       IN  IF which = "previous" THEN Time(prev) ELSE Time(prev + s.period)

\* twilight_morning / *_set_time, which = "next"
SetTime(s, t) ==
  IF ~Periodic(s) \/ ~isfinite(t.jd) THEN Time(NaN)
  ELSE LET q == s.phase + s.len
       IN  Time(t.jd - ((t.jd - q) % s.period) + s.period)

\* nights : the loop over the subsequent nights
RECURSIVE NightsWhile(_, _, _, _, _, _, _)
NightsWhile(self, sky, nskip, dusk, dawn, n, acc) ==
  IF NightsGoOn(dusk, dawn, self.tstop)
  THEN LET d1 == RiseTime(sky.night, NightsFrom(self.tstart, dawn), "next")
           d2 == SetTime(sky.night, d1)
       IN  NightsWhile(self, sky, nskip, d1, d2, n + 1,
                       IF Kept(n, nskip) THEN Append(acc, <<d1.jd, d2.jd>>)
                       ELSE acc)
  ELSE acc

\* nights(obs, skip) : exit stands for sys.exit("No night found")
nights(self, sky, nskip) ==
  LET night  == IsUp(sky.night, self.tstart)
      search == IF night THEN "previous" ELSE "next"
      dusk   == RiseTime(sky.night, self.tstart, search)
      dawn   == SetTime(sky.night, dusk)
      first  == IF FirstKept(nskip) THEN << <<dusk.jd, dawn.jd>> >> ELSE <<>>
      all    == NightsWhile(self, sky, nskip, dusk, dawn, 1, first)
  IN  [exit |-> Len(all) = 0, is_night |-> night, tnights |-> all]

\* moon_alt_veto : the loop over the subsequent Moon periods
RECURSIVE MoonWhile(_, _, _, _)
MoonWhile(self, sky, set, acc) ==
  IF set.jd < self.tstop.jd
  THEN LET r == RiseTime(sky.moon, set, "next")
           s == SetTime(sky.moon, r)
       IN  MoonWhile(self, sky, s, Append(acc, <<r.jd, s.jd>>))
  ELSE acc

\* moon_alt_veto(obs)
moon_alt_veto(self, sky) ==
  LET up     == IsUp(sky.moon, self.tstart)
      search == IF up THEN "previous" ELSE "next"
      rise   == RiseTime(sky.moon, self.tstart, search)
      set    == SetTime(sky.moon, rise)
      tm     == MoonWhile(self, sky, set, << <<rise.jd, set.jd>> >>)
  IN  IF ~isfinite(rise.jd) THEN NoWindow
      ELSE IF Len(tm) > 0 THEN tm ELSE NoWindow

\* compute : the loop over the Moon periods, keeping the confirmed ones and
\* recording the two flags of each period in the object
RECURSIVE MoonFilter(_, _, _, _)
MoonFilter(self, sky, periods, kept) ==
  IF Len(periods) = 0
  THEN [cls |-> self,
        t_moon_veto |-> IF Len(kept) = 0 THEN NoWindow ELSE kept]
  ELSE LET dt   == Head(periods)
           veto == moonlight_veto(dt, [i \in 1..Len(dt) |-> sky.light],
                                  [i \in 1..Len(dt) |-> sky.dist])
       IN  MoonFilter([self EXCEPT
                         !.moon_too_bright = Append(@, veto[1]),
                         !.moon_too_close = Append(@, veto[2])],
                      sky, Tail(periods),
                      IF Confirmed(veto[1], veto[2]) THEN Append(kept, dt)
                      ELSE kept)

\* Variant : horizon also moves the end of the data to the trigger
HorizonSelf_stop(self, seen) ==
  [self EXCEPT !.vis = seen, !.tstop = self.tstart]

\* horizon : the only attribute a finder writes is self.vis
HorizonSelf(self, seen) == [self EXCEPT !.vis = seen]

\* horizon : the loop over the subsequent periods above the horizon
RECURSIVE HorizonWhile(_, _, _, _, _)
HorizonWhile(self, sky, rise, set, acc) ==
  IF TimeLt(set, self.tstop)
  THEN LET r == RiseTime(sky.target, HorizonFrom(rise, set), "next")
           s == SetTime(sky.target, r)
       IN  HorizonWhile(self, sky, r, s, Append(acc, <<r.jd, s.jd>>))
  ELSE acc

\* horizon(obs)
horizon(self, sky) ==
  LET up     == IsUp(sky.target, self.tstart)
      search == IF up THEN "previous" ELSE "next"
      rise   == RiseTime(sky.target, self.tstart, search)
      set    == SetTime(sky.target, rise)
  IN  IF ~isfinite(rise.jd)
      THEN [cls |-> HorizonSelf(self, up), high |-> up,
            t_above |-> HorizonUndefined(up, self.tstart, self.tstop)]
      ELSE [cls |-> HorizonSelf(self, TRUE), high |-> up,
            t_above |-> HorizonWhile(self, sky, rise, set,
                                     << <<rise.jd, set.jd>> >>)]

\* The three blocks of compute that call the finders (lines 370-405), each
\* a function of the object and of the values returned so far
StageNights(st, sky, force, nskip) ==
  LET r == IF force
           THEN [exit |-> FALSE, is_night |-> TRUE,
                 tnights |-> << <<st.cls.tstart.jd, st.cls.tstop.jd>> >>]
           ELSE nights(st.cls, sky, nskip)
  IN  [st EXCEPT !.ret.exit = r.exit, !.ret.is_night = r.is_night,
                 !.ret.t_night = r.tnights]

StageMoon(st, sky, force) ==
  IF force
  THEN [st EXCEPT !.ret.t_moon_alt_veto = NoWindow,
                  !.ret.t_moon_veto = NoWindow]
  ELSE LET alt == moon_alt_veto(st.cls, sky)
           f   == MoonFilter(st.cls, sky, alt, <<>>)
       IN  [st EXCEPT !.cls = f.cls, !.ret.t_moon_alt_veto = alt,
                      !.ret.t_moon_veto = f.t_moon_veto]

StageHorizon(st, sky) ==
  LET h == horizon(st.cls, sky)
  IN  [st EXCEPT !.cls = h.cls, !.ret.high = h.high,
                 !.ret.t_above = h.t_above]

Stage(finder, st, sky, force, nskip) ==
  CASE finder = "nights" -> StageNights(st, sky, force, nskip)
    [] finder = "moon" -> StageMoon(st, sky, force)
    [] finder = "horizon" -> StageHorizon(st, sky)

\* Ticks, visibility of the tick intervals, write back and flags
\* (lines 410-535), as a function of the object and of the returned lists
Merged(self, r) ==
  IF r.exit THEN [status |-> "exit"]
  ELSE IF ~DfIsTime(LastNight(r.t_night)) THEN [status |-> "raised"]
  ELSE LET shortened == TimeLt(self.tstop, Df(LastNight(r.t_night)))
           first == IF shortened THEN <<self.tstart.jd, self.tstop.jd>>
                    ELSE <<self.tstart.jd>>
           stop  == IF shortened THEN self.tstop
                    ELSE Df(LastNight(r.t_night))
           tk    == Ticks(first, r.t_night, r.t_above, r.t_moon_veto)
           tv    == TVis(tk, self.tstart, stop, r.t_night, r.t_above,
                         r.t_moon_veto)
       IN  [status |-> "done", tstart |-> self.tstart, tstop |-> stop,
            t_true |-> TTrue(tv), t_twilight |-> WriteBack(r.t_night),
            t_event |-> WriteBack(r.t_above),
            t_moon_up |-> WriteBack(r.t_moon_alt_veto),
            vis |-> FlagVis(r.t_above), vis_night |-> FlagVisNight(tv),
            vis_prompt |-> FlagVisPrompt(self.tstart, tv),
            moon_too_bright |-> self.moon_too_bright,
            moon_too_close |-> self.moon_too_close]

\* The object after construction and the values not yet returned
Constructed(start, stop) ==
  [cls |-> [tstart |-> start, tstop |-> stop, vis |-> TRUE,
            moon_too_bright |-> <<>>, moon_too_close |-> <<>>],
   ret |-> [exit |-> FALSE, is_night |-> FALSE, t_night |-> <<>>,
            t_moon_alt_veto |-> <<>>, t_moon_veto |-> <<>>,
            high |-> FALSE, t_above |-> <<>>]]

Finders == {"nights", "moon", "horizon"}

\* The six orders of the three finders
Orders == {o \in [1..3 -> Finders] : \A i, j \in 1..3 : o[i] = o[j] => i = j}

InitOrder ==
  /\ InitCompute /\ FileIdle /\ DriverIdle /\ SubsetIdle
  /\ ord \in {[obs |-> sky, order |-> o, ran |-> 0,
               cls |-> Constructed(tstart, tstop).cls,
               ret |-> Constructed(tstart, tstop).ret,
               final |-> [status |-> "none"]] :
              sky \in Skies, o \in Orders}

\* The next finder of the order is called; nothing is called after sys.exit
Call(finder) ==
  /\ ord.ran < 3 /\ ord.order[ord.ran + 1] = finder /\ ~ord.ret.exit
  /\ LET st == Stage(finder, [cls |-> ord.cls, ret |-> ord.ret], ord.obs,
                     force_vis, skip)
     IN  ord' = [ord EXCEPT
                   !.cls = st.cls,
                   !.ret = st.ret,
                   !.final = IF st.ret.exit THEN [status |-> "exit"] ELSE @,
                   !.ran = @ + 1]
  /\ UNCHANGED <<computeVars, fs, drv, sub>>

OrdNights == Call("nights")

OrdMoon == Call("moon")

OrdHorizon == Call("horizon")

\* The merge, once the three finders have returned
OrdMerge ==
  /\ ord.ran = 3 /\ ~ord.ret.exit
  /\ ord' = [ord EXCEPT !.final = Merged(ord.cls, ord.ret), !.ran = 4]
  /\ UNCHANGED <<computeVars, fs, drv, sub>>

NextOrder == OrdNights \/ OrdMoon \/ OrdHorizon \/ OrdMerge

SpecOrder == InitOrder /\ [][NextOrder]_vars

\* --------------------------------------------------------- write and read
\* Path(folder, name)
Path(folder, name) == <<folder, name>>

\* self.name + "_vis.bin"
VisBin(name) == <<name, "_vis.bin">>

Folders == {"vis", "out"}

\* The attributes of an instance, in the order of the constructor
Attributes == <<"status", "name", "tstart", "tstop", "vis", "vis_night",
                "vis_prompt", "t_true", "t_twilight", "t_event", "t_moon_up">>

TimeAttributes == {"tstart", "tstop"}

ListAttributes == {"t_true", "t_twilight", "t_event", "t_moon_up"}

\* Variant : the dates are written with the precision of a day
EncTime_day(t) == <<"Time", (t.jd \div DayLen) * DayLen>>

\* A Time is written as its class and its date
EncTime(t) == <<"Time", t.jd>>

DecTime(b) == Time(b[2])

EncList(w) == [i \in 1..Len(w) |-> [j \in 1..Len(w[i]) |-> EncTime(w[i][j])]]

DecList(b) == [i \in 1..Len(b) |-> [j \in 1..Len(b[i]) |-> DecTime(b[i][j])]]

\* pickle.dump : the attributes of the instance, one after the other
dump(o) ==
  [i \in 1..Len(Attributes) |->
     LET a == Attributes[i]
     IN  <<a, IF a \in TimeAttributes THEN EncTime(o[a])
              ELSE IF a \in ListAttributes THEN EncList(o[a])
              ELSE o[a]>>]

\* pickle.load : an instance with the attributes found in the file
load(b) ==
  [a \in {b[i][1] : i \in 1..Len(b)} |->
     LET v == b[CHOOSE i \in 1..Len(b) : b[i][1] = a][2]
     IN  IF a \in TimeAttributes THEN DecTime(v)
         ELSE IF a \in ListAttributes THEN DecList(v)
         ELSE v]

\* The instances that are written : as left by the constructor or by
\* compute, for one GRB at one of the two sites
Instances ==
  {[status |-> st, name |-> n, tstart |-> t0, tstop |-> t1, vis |-> v,
    vis_night |-> tt # NoWindow, vis_prompt |-> vp, t_true |-> tt,
    t_twilight |-> tw, t_event |-> te, t_moon_up |-> tm] :
     st \in {"init", "Updated"},
     n \in {"grb_North", "grb_South"},
     t0 \in {Time(2)},
     t1 \in {Time(2 + 2 * d) : d \in 0..MaxSpan},
     v \in BOOLEAN,
     vp \in BOOLEAN,
     tt \in {NoWindow, << <<Time(2), Time(4)>> >>},
     tw \in {<< <<Time(0), Time(4)>> >>,
             << <<Time(0), Time(2)>>, <<Time(4), Time(6)>> >>},
     te \in {NoWindow, << <<Time(0), Time(4)>> >>},
     tm \in {NoWindow, << <<Time(2), Time(4)>> >>}}

InitFile ==
  /\ ComputeIdle /\ OrderIdle /\ DriverIdle /\ SubsetIdle
  /\ fs \in {[obj |-> o, disk |-> <<>>, asked |-> <<>>, loaded |-> <<>>,
              pc |-> "run"] :
             o \in {i \in Instances : i.vis_prompt => i.vis_night}}

\* write(folder) : the file is created or replaced
Write ==
  /\ fs.pc = "run"
  /\ \E folder \in Folders :
       LET filename == Path(folder, VisBin(fs.obj.name))
       IN  fs' = [fs EXCEPT
                    !.disk = [f \in DOMAIN fs.disk \cup {filename} |->
                                IF f = filename THEN dump(fs.obj)
                                ELSE fs.disk[f]]]
  /\ UNCHANGED <<computeVars, ord, drv, sub>>

\* read(name, folder) : sys.exit if the file does not exist
Read ==
  /\ fs.pc = "run"
  /\ \E folder \in Folders :
     \E name \in {VisBin(fs.obj.name), <<fs.obj.name>>} :
       LET filename == Path(folder, name)
       IN  fs' = IF filename \in DOMAIN fs.disk
                 THEN [fs EXCEPT !.asked = filename,
                                 !.loaded = load(fs.disk[filename]),
                                 !.pc = "read"]
                 ELSE [fs EXCEPT !.asked = filename, !.pc = "exit"]
  /\ UNCHANGED <<computeVars, ord, drv, sub>>

\* The caller goes on with the instance it got
Resume ==
  /\ fs.pc = "read"
  /\ fs' = [fs EXCEPT !.pc = "run"]
  /\ UNCHANGED <<computeVars, ord, drv, sub>>

NextFile == Write \/ Read \/ Resume

SpecFile == InitFile /\ [][NextFile]_vars

\* ------------------------------------------------- the simulation driver
MaxGrb == 2

Sites == <<"North", "South">>

\* What the driver does for the visibility : keep the one of the GRB file,
\* read it from cf.vis_dir, or compute it (cf.vis_cmp)
VisSources == {"keep", "read", "compute"}

\* A visibility as the driver sees it : has tells whether the object has
\* an attribute vis_tonight.  An instance of Visibility has vis_night only.
Seen(present, tonight, night) ==
  [has |-> present, vis_tonight |-> tonight, vis_night |-> night]

\* get_grb_fromfile : the visibilities found in the GRB file
FromFile == {Seen(present, flag, flag) : present \in BOOLEAN, flag \in BOOLEAN}

\* Visibility.read : an instance written by Visibility.write
FromRead == {Seen(FALSE, FALSE, flag) : flag \in BOOLEAN}

\* Variant : one of the two sites is enough
BothVisible_any(v) == v["North"].vis_tonight \/ v["South"].vis_tonight

\* If visible on both sites, run simulation
BothVisible(v) == v["North"].vis_tonight /\ v["South"].vis_tonight

InitDriver ==
  /\ ComputeIdle /\ OrderIdle /\ FileIdle /\ SubsetIdle
  /\ drv \in {[pc |-> "grb", err |-> "none", cfvis |-> c, igrb |-> 1,
               iloc |-> 1, gvis |-> <<>>, started |-> {},
               records |-> <<>>] : c \in VisSources}

\* Get GRB : its visibilities are those of the GRB file
GetGrb ==
  /\ drv.pc = "grb"
  /\ \E v \in [{"North", "South"} -> FromFile] :
       drv' = [drv EXCEPT !.gvis = v, !.iloc = 1, !.pc = "vis"]
  /\ UNCHANGED <<computeVars, ord, fs, sub>>

\* cf.vis_dir is set : the visibility of the site is read; sys.exit if the
\* file does not exist
VisRead ==
  /\ drv.pc = "vis" /\ drv.cfvis = "read" /\ drv.iloc <= Len(Sites)
  /\ \/ \E v \in FromRead :
          drv' = [drv EXCEPT !.gvis[Sites[drv.iloc]] = v, !.iloc = @ + 1]
     \/ drv' = [drv EXCEPT !.pc = "exit",
                           !.err = "Visibility file does not exist"]
  /\ UNCHANGED <<computeVars, ord, fs, sub>>

\* cf.vis_cmp is set : compute is called with the keywords observatory,
\* altmin, altmoon, moondist, moonlight, depth and skip, which it does not
\* have
VisCompute ==
  /\ drv.pc = "vis" /\ drv.cfvis = "compute" /\ drv.iloc <= Len(Sites)
  /\ drv' = [drv EXCEPT !.pc = "raised", !.err = "TypeError"]
  /\ UNCHANGED <<computeVars, ord, fs, sub>>

\* The visibilities of the two sites are set
VisDone ==
  /\ drv.pc = "vis" /\ (drv.cfvis = "keep" \/ drv.iloc > Len(Sites))
  /\ drv' = [drv EXCEPT !.pc = "site", !.iloc = 1]
  /\ UNCHANGED <<computeVars, ord, fs, sub>>

\* One turn of the loop over the sites : if visible and still visible
\* after the delay, run the simulation; get the results even if not visible
SiteCase ==
  /\ drv.pc = "site" /\ drv.iloc <= Len(Sites)
  /\ LET loc == Sites[drv.iloc] IN
     IF ~drv.gvis[loc].has
     THEN drv' = [drv EXCEPT !.pc = "raised", !.err = "AttributeError"]
     ELSE \E still_vis \in BOOLEAN :
            drv' = [drv EXCEPT
                      !.started = IF drv.gvis[loc].vis_tonight /\ still_vis
                                  THEN @ \cup {<<drv.igrb, loc>>}
                                  ELSE @,
                      !.records = Append(@, <<drv.igrb, loc>>),
                      !.iloc = @ + 1]
  /\ UNCHANGED <<computeVars, ord, fs, sub>>

\* The GRB seen on both sites, then the next GRB
BothCase ==
  /\ drv.pc = "site" /\ drv.iloc > Len(Sites)
  /\ \E slot \in BOOLEAN :
       drv' = [drv EXCEPT
                 !.started = IF BothVisible(drv.gvis) /\ slot
                             THEN @ \cup {<<drv.igrb, "Both">>}
                             ELSE @,
                 !.records = Append(@, <<drv.igrb, "Both">>),
                 !.igrb = @ + 1,
                 !.pc = IF drv.igrb < MaxGrb THEN "grb" ELSE "done"]
  /\ UNCHANGED <<computeVars, ord, fs, sub>>

NextDriver ==
  \/ GetGrb \/ VisRead \/ VisCompute \/ VisDone \/ SiteCase \/ BothCase

SpecDriver == InitDriver /\ [][NextDriver]_vars

\* ------------------------------------------------------------ subset_ids
\* nmax and nsets run over 1..MaxIds
MaxIds == 8

\* min(a, b)
min(a, b) == IF a < b THEN a ELSE b

\* [i for i in range(start, stop, step)] with step > 0
range(start, stop, step) ==
  LET n == IF stop > start THEN (stop - start + step - 1) \div step ELSE 0
  IN  [i \in 1..n |-> start + (i - 1) * step]

\* int(nmax/nsets) : regular set size
delta(nmax, nsets) == nmax \div nsets

\* Variant : the high values are left as the range gave them
Closed_asis(low, hi, nmax) == hi

\* The high values once the last interval is closed on nmax
Closed(low, hi, nmax) ==
  IF Len(hi) < Len(low) THEN hi \o <<nmax>>
  ELSE IF hi[Len(hi)] < nmax THEN [hi EXCEPT ![Len(hi)] = nmax]
  ELSE hi

\* [[idl, idh] for (idl, idh) in zip(low, high)]
zip(low, hi) ==
  [i \in 1..min(Len(low), Len(hi)) |-> <<low[i], hi[i]>>]

\* len(range(ds[0], ds[1] + 1))
Items(ds) == IF ds[2] + 1 > ds[1] THEN ds[2] + 1 - ds[1] ELSE 0

InitSubset ==
  /\ ComputeIdle /\ OrderIdle /\ FileIdle /\ DriverIdle
  /\ sub \in {[pc |-> "call", nmax |-> n, nsets |-> k, ids_low |-> <<>>,
               ids_high |-> <<>>, dsets |-> <<>>, ids |-> 0, icount |-> 0,
               ret |-> <<>>] : n \in 1..MaxIds, k \in 1..MaxIds}

\* nsets >= nmax : a single pair of numbers is returned
SubsetSingle ==
  /\ sub.pc = "call" /\ sub.nsets >= sub.nmax
  /\ sub' = [sub EXCEPT !.ret = <<1, sub.nmax>>, !.pc = "done"]
  /\ UNCHANGED <<computeVars, ord, fs, drv>>

\* Define low and high values of the intervals
SubsetBounds ==
  /\ sub.pc = "call" /\ sub.nsets < sub.nmax
  /\ LET d == delta(sub.nmax, sub.nsets)
     IN  sub' = [sub EXCEPT
                   !.ids_low = range(1, sub.nmax, d),
                   !.ids_high = range(d, min(sub.nmax + d, sub.nmax), d),
                   !.pc = "close"]
  /\ UNCHANGED <<computeVars, ord, fs, drv>>

\* Close the last interval and create the interval list
SubsetIntervals ==
  /\ sub.pc = "close"
  /\ LET hi == Closed(sub.ids_low, sub.ids_high, sub.nmax)
     IN  sub' = [sub EXCEPT !.ids_high = hi,
                            !.dsets = zip(sub.ids_low, hi),
                            !.ids = 1, !.icount = 0, !.pc = "count"]
  /\ UNCHANGED <<computeVars, ord, fs, drv>>

\* Check counts : one turn of the loop over the intervals
SubsetCount ==
  /\ sub.pc = "count" /\ sub.ids <= Len(sub.dsets)
  /\ sub' = [sub EXCEPT !.icount = @ + Items(sub.dsets[sub.ids]),
                        !.ids = @ + 1]
  /\ UNCHANGED <<computeVars, ord, fs, drv>>

\* sys.exit if an entry is lost or counted twice, else return the list
SubsetReturn ==
  /\ sub.pc = "count" /\ sub.ids > Len(sub.dsets)
  /\ sub' = IF sub.icount # sub.nmax THEN [sub EXCEPT !.pc = "exit"]
            ELSE [sub EXCEPT !.ret = sub.dsets, !.pc = "done"]
  /\ UNCHANGED <<computeVars, ord, fs, drv>>

NextSubset ==
  \/ SubsetSingle \/ SubsetBounds \/ SubsetIntervals \/ SubsetCount
  \/ SubsetReturn

SpecSubset == InitSubset /\ [][NextSubset]_vars

TypeOK == pc \in {"nights", "nights_loop", "moon", "moon_loop", "moonlight",
                  "horizon", "horizon_loop", "merge", "done", "exit",
                  "raised"}

\* ------------------------------------------------------------ properties
\* Instant t is inside a window of a stored list (pairs of Time)
Covers(windows, t) ==
  /\ windows # NoWindow
  /\ \E k \in 1..Len(windows) :
       windows[k][1].jd <= t /\ t <= windows[k][2].jd

\* Instant t is inside a window of a list in jd
CoversJd(windows, t) ==
  /\ windows # NoWindow
  /\ \E k \in 1..Len(windows) : windows[k][1] <= t /\ t <= windows[k][2]

InData(t) == tstart.jd <= t /\ t <= tstop.jd

Returned == pc = "done"

\* C1 : subset law.  Every instant strictly inside a true-visibility window
\* is inside a night window, inside an above-horizon window, inside the data
\* window of the result and outside every confirmed Moon veto.
C1_SubsetLaw ==
  (Returned /\ t_true # NoWindow) =>
    \A i \in 1..Len(t_true) : \A t \in Instants :
      (t_true[i][1].jd < t /\ t < t_true[i][2].jd) =>
        /\ Covers(t_twilight, t)
        /\ Covers(t_event, t)
        /\ InData(t)
        /\ ~CoversJd(t_moon_veto, t)

\* A non-forced result with a confirmed Moon veto and a visibility window of
\* non-zero length
C1_Witness ==
  /\ Returned /\ ~force_vis
  /\ t_moon_veto # NoWindow
  /\ t_true # NoWindow
  /\ \E i \in 1..Len(t_true) : t_true[i][1].jd < t_true[i][2].jd

\* C2 : force-visible override.  With force_vis the true-visibility list of
\* the result is exactly the single window [tstart, tstop].
C2_ForceVisible ==
  (Returned /\ force_vis) => t_true = << <<tstart, tstop>> >>

\* C3 : the flag vis is true if and only if the above-horizon list holds at
\* least one window.
C3_VisFlag ==
  Returned => (vis <=> t_event # NoWindow)

\* C4 : vis_night is true if and only if the sweep emitted at least one
\* window; without any, the stored list is the no-window list and the flag
\* is false.
C4_VisNightFlag ==
  Returned =>
    /\ vis_night <=> Len(t_vis) > 0
    /\ Len(t_vis) = 0 => (t_true = NoWindow /\ ~vis_night)
    /\ Len(t_vis) > 0 => (t_true # NoWindow /\ Len(t_true) = Len(t_vis))

\* A non-forced result where the target has a period above the horizon but
\* the sweep emitted nothing
C4_Witness ==
  /\ Returned /\ ~force_vis
  /\ t_event # NoWindow
  /\ Len(t_vis) = 0

\* C5 : vis_prompt is true if and only if there is a true-visibility window
\* and the trigger is inside the first one, bounds included.
C5_VisPromptFlag ==
  Returned =>
    (vis_prompt <=>
       (/\ t_true # NoWindow
        /\ t_true[1][1].jd <= tstart.jd
        /\ tstart.jd <= t_true[1][2].jd))

\* A non-forced result whose first visibility window starts at the trigger
C5_Witness ==
  /\ Returned /\ ~force_vis
  /\ t_true # NoWindow
  /\ t_true[1][1] = tstart
  /\ vis_prompt

\* The rise query at the trigger was undefined
RiseUndefined == pc \in {"merge", "done", "raised"} /\ ~isfinite(t_rise.jd)

\* C6 : circumpolar case.  Rise undefined with the target above altmin at
\* the trigger : the above-horizon list of the result is exactly the data
\* window of the result, and horizon made the first rise query only.
C6_Circumpolar ==
  (RiseUndefined /\ high) =>
    /\ nquery = 1
    /\ Returned => t_event = << <<tstart, tstop>> >>

\* A non-forced result for a circumpolar target with data of non-zero
\* length
C6_Witness ==
  /\ Returned /\ ~force_vis
  /\ RiseUndefined /\ high
  /\ tstart.jd < tstop.jd

\* The first Moon rise query was undefined
MoonNeverRises == ~force_vis /\ t_moon_alt_veto = NoWindow

\* C7 as stated : when the Moon never rises the Moon lists are empty and
\* the instants of the true-visibility windows are exactly the instants
\* that are in a night window and in an above-horizon window.
C7_NoMoonVeto_stated ==
  (Returned /\ MoonNeverRises) =>
    /\ t_moon_up = NoWindow
    /\ t_moon_veto = NoWindow
    /\ \A t \in Instants :
         Covers(t_true, t) <=> (Covers(t_twilight, t) /\ Covers(t_event, t))

\* C7 : when the Moon never rises the Moon lists are empty and the instants
\* of the true-visibility windows are exactly the instants of the data
\* window that are in a night window and in an above-horizon window.
C7_NoMoonVeto ==
  (Returned /\ MoonNeverRises) =>
    /\ t_moon_up = NoWindow
    /\ t_moon_veto = NoWindow
    /\ \A t \in Instants :
         Covers(t_true, t) <=>
           (Covers(t_twilight, t) /\ Covers(t_event, t) /\ InData(t))

\* The Moon never rises, the night and the period above the horizon both
\* start before the trigger and go on after it
C7_Witness ==
  /\ Returned /\ MoonNeverRises
  /\ t_true # NoWindow
  /\ t_event # NoWindow
  /\ t_twilight[1][1].jd < tstart.jd
  /\ t_event[1][1].jd < tstart.jd
  /\ Covers(t_twilight, tstart.jd + 1)
  /\ Covers(t_event, tstart.jd + 1)

\* C8 : fatal configuration.  When the twilight queries locate no night, a
\* non-forced compute stops in nights with the "No night found" error : it
\* never goes past the night finder.
C8_NoNightIsFatal ==
  no_night =>
    /\ pc \in {"nights_loop", "exit"}
    /\ pc = "exit" => err = "No night found"

\* Windows w1 then w2 of a list : in order, interiors disjoint
Ordered(w1, w2) == w1[1].jd <= w2[1].jd /\ w1[2].jd <= w2[1].jd

WellFormed(windows) ==
  windows # NoWindow =>
    /\ \A i \in 1..Len(windows) : windows[i][1].jd <= windows[i][2].jd
    /\ \A i, j \in 1..Len(windows) :
         i < j => Ordered(windows[i], windows[j])

\* C9 : window well-formedness.  In each list of the result (nights, above
\* the horizon, Moon up, true visibility) every window has start <= end,
\* the windows are in ascending order of start, and a window never starts
\* before the end of a window that precedes it (they may share that
\* instant).
C9_WellFormed ==
  Returned =>
    /\ WellFormed(t_twilight)
    /\ WellFormed(t_event)
    /\ WellFormed(t_moon_up)
    /\ WellFormed(t_true)

\* A non-forced result with several windows in each of the four lists
C9_Witness ==
  /\ Returned /\ ~force_vis
  /\ Len(t_twilight) >= 2
  /\ Len(t_event) >= 2
  /\ Len(t_moon_up) >= 2
  /\ Len(t_true) >= 2

\* C10 : never-rising target.  Rise undefined with the target below altmin
\* at the trigger : compute does not raise and returns a result with no
\* above-horizon window, no true-visibility window, vis_night and
\* vis_prompt false.
C10_NeverRising ==
  (RiseUndefined /\ ~high) =>
    /\ pc # "raised"
    /\ Returned =>
         (/\ t_event = NoWindow
          /\ t_true = NoWindow
          /\ ~vis_night
          /\ ~vis_prompt)

\* The elements of a list
Range(s) == {s[i] : i \in 1..Len(s)}

\* C11 as stated : a Moon period that is neither too bright nor too close
\* never appears in the Moon list stored on the result.
C11_OnlyConfirmedStored_stated ==
  (Returned /\ t_moon_up # NoWindow) =>
    \A i \in 1..Len(t_moon_up) : moon_too_bright[i] \/ moon_too_close[i]

\* C11 : the Moon list stored on the result (t_moon_up) holds every period
\* with the Moon above moon_maxalt, in order, confirmed or not; period i is
\* used as a veto by the sweep if and only if moon_too_bright[i] or
\* moon_too_close[i] is true.
C11_AllMoonUpStored ==
  (Returned /\ ~force_vis) =>
    /\ Len(moon_too_bright) = Len(t_moon_alt_veto)
    /\ Len(moon_too_close) = Len(t_moon_alt_veto)
    /\ t_moon_alt_veto = NoWindow =>
         (t_moon_up = NoWindow /\ t_moon_veto = NoWindow)
    /\ t_moon_alt_veto # NoWindow =>
         /\ Len(t_moon_up) = Len(t_moon_alt_veto)
         /\ \A i \in 1..Len(t_moon_alt_veto) :
              /\ t_moon_up[i][1].jd = t_moon_alt_veto[i][1]
              /\ t_moon_up[i][2].jd = t_moon_alt_veto[i][2]
              /\ (t_moon_alt_veto[i] \in Range(t_moon_veto)) <=>
                   (moon_too_bright[i] \/ moon_too_close[i])

\* A result with a stored Moon period that is not confirmed and another
\* one confirmed by the distance only
C11_Witness ==
  /\ Returned /\ ~force_vis
  /\ t_moon_up # NoWindow
  /\ \E i, j \in 1..Len(t_moon_up) :
       /\ ~moon_too_bright[i] /\ ~moon_too_close[i]
       /\ ~moon_too_bright[j] /\ moon_too_close[j]

\* C12 : with force_vis the above-horizon list of the result is the single
\* window [tstart, tstop] and the three flags are true.
C12_ForceAllFlags ==
  (Returned /\ force_vis) =>
    /\ t_event = << <<tstart, tstop>> >>
    /\ vis /\ vis_night /\ vis_prompt

\* nights has returned to compute
NightsReturned == ~force_vis /\ pc \notin {"nights", "nights_loop", "exit"}

\* C20 : nights never returns an empty list.  It returns at least one pair,
\* or stops with "No night found"; it stops exactly when all the nights
\* found (inight of them) are among the skip nights to omit.
C20_NightsNeverEmpty ==
  /\ NightsReturned =>
       /\ Len(t_night) >= 1
       /\ \A i \in 1..Len(t_night) : Len(t_night[i]) = 2
       /\ inight > skip
  /\ pc = "exit" =>
       /\ err = "No night found"
       /\ tnights = <<>>
       /\ inight <= skip

\* nights stopped after having found and omitted a night
C20_Witness ==
  /\ pc = "exit"
  /\ skip >= 1
  /\ inight >= 1
  /\ isfinite(t_dusk.jd)

\* The filter loop has just looked at the Moon period [rise, set] at imoon
FilterStep ==
  /\ pc = "moonlight"
  /\ imoon' = imoon + 1
  /\ Len(t_moon_alt_veto[imoon]) = 2

\* The light or the distance sampled at the rise or at the set confirm
KeptBySamples(light, dist) ==
  \/ light[1] >= moon_maxlight \/ light[2] >= moon_maxlight
  \/ dist[1] <= moon_mindist \/ dist[2] <= moon_mindist

\* C18 : a Moon period [rise, set] is kept as a veto if and only if the
\* illumination sampled at rise or at set is >= moon_maxlight or the
\* separation sampled at rise or at set is <= moon_mindist; the two
\* endpoints only are sampled, and the kept periods are in the order of
\* the candidates.
C18_MoonlightVeto ==
  /\ [][FilterStep =>
          /\ DOMAIN sampled'[1] = 1..2 /\ DOMAIN sampled'[2] = 1..2
          /\ IF KeptBySamples(sampled'[1], sampled'[2])
             THEN t_moon_veto' = Append(t_moon_veto, t_moon_alt_veto[imoon])
             ELSE t_moon_veto' = t_moon_veto]_vars
  /\ []((pc = "horizon" /\ t_moon_veto # NoWindow) =>
          /\ Range(t_moon_veto) \subseteq Range(t_moon_alt_veto)
          /\ \A i, j \in 1..Len(t_moon_veto) :
               i < j => t_moon_veto[i][1] < t_moon_veto[j][1])

\* The second Moon period has just been kept for the distance at its set
\* only, after the first one was kept
C18_Witness ==
  /\ pc = "moonlight" /\ imoon = 3
  /\ sampled # <<>>
  /\ sampled[1][1] < moon_maxlight /\ sampled[1][2] < moon_maxlight
  /\ sampled[2][1] > moon_mindist /\ sampled[2][2] <= moon_mindist
  /\ Len(t_moon_veto) = 2
  /\ t_moon_veto[2] = t_moon_alt_veto[2]

Stopped == pc \in {"done", "exit", "raised"}

Canonical ==
  LET s0 == Constructed(tstart, tstop)
      s1 == StageNights(s0, ord.obs, force_vis, skip)
      s2 == StageMoon(s1, ord.obs, force_vis)
  IN  StageHorizon(s2, ord.obs)

\* The finder has been called
Called(finder) == \E i \in 1..3 : i <= ord.ran /\ ord.order[i] = finder

\* C16 : the three finders do not depend on each other.  None of them
\* changes tstart or tstop, and once they have run, in any of the six
\* orders, the object (its recorded Moon flags included) and the night,
\* Moon and above-horizon lists are those of the order of compute, and so
\* is the final result.
C16_OrderIndependent ==
  /\ ~ord.ret.exit => (ord.cls.tstart = tstart /\ ord.cls.tstop = tstop)
  /\ (ord.ran >= 3 /\ ~ord.ret.exit) =>
       (ord.cls = Canonical.cls /\ ord.ret = Canonical.ret)
  /\ ord.final.status # "none" =>
       ord.final = Merged(Canonical.cls, Canonical.ret)

\* the finders ran in another order than compute's, horizon first, with a
\* confirmed Moon period and a visibility window in the merged result
C16_Witness ==
  /\ ord.ran = 4 /\ ord.final.status = "done"
  /\ ord.order[1] = "horizon" /\ ord.order[3] = "nights"
  /\ ~force_vis
  /\ Len(ord.ret.t_night) >= 2
  /\ ord.ret.t_moon_veto # NoWindow
  /\ ord.final.vis_night

\* C19 : when nights(skip = k) returns, its list is the list of nights(skip
\* = 0) on the same sky without its first k windows.
C19_SkipOmitsFirst ==
  (Called("nights") /\ ~force_vis /\ ~ord.ret.exit) =>
    LET all == nights(Constructed(tstart, tstop).cls, ord.obs, 0).tnights
    IN  /\ Len(all) > skip
        /\ ord.ret.t_night = SubSeq(all, skip + 1, Len(all))

\* nights returned a night after having omitted at least one
C19_Witness ==
  /\ Called("nights") /\ ~force_vis /\ ~ord.ret.exit
  /\ skip >= 1
  /\ Len(ord.ret.t_night) >= 1

\* The attributes of the claim : data window, four lists, three flags
Same(a, b) ==
  /\ a.tstart = b.tstart /\ a.tstop = b.tstop
  /\ a.t_true = b.t_true /\ a.t_twilight = b.t_twilight
  /\ a.t_event = b.t_event /\ a.t_moon_up = b.t_moon_up
  /\ a.vis = b.vis /\ a.vis_night = b.vis_night
  /\ a.vis_prompt = b.vis_prompt

Tonight(loc) == drv.gvis[loc].has /\ drv.gvis[loc].vis_tonight

C14_RecordForEveryCase ==
  drv.pc \in {"done", "raised"} =>
    \A g \in 1..MaxGrb : \A c \in {"North", "South", "Both"} :
      <<g, c>> \in Range(drv.records)

\* subset_ids was called with 1 <= nsets < nmax and has stopped
Split == sub.pc \in {"done", "exit"} /\ sub.nsets < sub.nmax

\* Intervals that follow each other from 1 to nmax
Consecutive(d, nmax) ==
  /\ Len(d) >= 1
  /\ d[1][1] = 1 /\ d[Len(d)][2] = nmax
  /\ \A i \in 1..Len(d) : d[i][1] <= d[i][2]
  /\ \A i \in 1..(Len(d) - 1) : d[i + 1][1] = d[i][2] + 1

\* C25 : for 1 <= nsets < nmax, subset_ids returns nsets consecutive
\* intervals over 1..nmax when nsets divides nmax, and nsets + 1 intervals,
\* the last one holding the remainder, when it does not.
C25_SubsetCount ==
  Split =>
    /\ sub.pc = "done"
    /\ Consecutive(sub.ret, sub.nmax)
    /\ Len(sub.ret) = IF sub.nmax % sub.nsets = 0 THEN sub.nsets
                      ELSE sub.nsets + 1

\* C30 : for 1 <= nsets < nmax, the intervals of subset_ids follow each
\* other without overlap, every integer of 1..nmax is in exactly one of
\* them, and the count check never stops the program.
C30_SubsetPartition ==
  Split =>
    /\ sub.pc = "done"
    /\ sub.icount = sub.nmax
    /\ Consecutive(sub.ret, sub.nmax)
    /\ \A n \in 1..sub.nmax :
         Cardinality({i \in 1..Len(sub.ret) :
                        sub.ret[i][1] <= n /\ n <= sub.ret[i][2]}) = 1

\* a list that nsets does not divide was split in more than nsets + 1
\* intervals, the last one longer than the others
C30_Witness ==
  /\ Split /\ sub.pc = "done"
  /\ sub.nmax % sub.nsets # 0
  /\ Len(sub.ret) > sub.nsets + 1
  /\ Items(Last(sub.ret)) > Items(sub.ret[1])

\* horizon has returned a list built from a defined first rise; tstop is
\* still the stop the finder looked at
HorizonDefined == pc = "merge" /\ isfinite(t_rise.jd)

\* C21 as stated : every window of the horizon list but the last has
\* rise <= tstop, and the last window is the first whose rise exceeds tstop.
C21_HorizonUntilRise_stated ==
  HorizonDefined =>
    /\ \A i \in 1..(Len(t_above) - 1) : t_above[i][1] <= tstop.jd
    /\ Last(t_above)[1] > tstop.jd

\* C21 : when the first rise is defined, horizon emits [rise, set] and goes
\* on from the previous set until a set reaches tstop : every window but
\* the last sets before tstop, the last window is the first one that sets
\* at or after tstop, and each window rises after the set of the one
\* before it.
C21_HorizonUntilSet ==
  HorizonDefined =>
    /\ Len(t_above) >= 1
    /\ \A i \in 1..Len(t_above) : t_above[i][1] < t_above[i][2]
    /\ \A i \in 1..(Len(t_above) - 1) :
         /\ t_above[i][2] < tstop.jd
         /\ t_above[i + 1][1] > t_above[i][2]
    /\ Last(t_above)[2] >= tstop.jd

\* horizon returned several windows and the last one rises before tstop
C21_Witness ==
  /\ HorizonDefined
  /\ Len(t_above) >= 2
  /\ Last(t_above)[1] < tstop.jd

\* C22 : the data stop of the result is the earlier of the requested data
\* stop and the end of the last night found, and no true-visibility
\* window ends after it.
C22_EffectiveStop ==
  /\ [][(pc = "merge" /\ pc' = "done") =>
          tstop'.jd = IF tstop.jd < Last(t_night)[2] THEN tstop.jd
                      ELSE Last(t_night)[2]]_vars
  /\ []((Returned /\ t_true # NoWindow) =>
          \A i \in 1..Len(t_true) : t_true[i][2].jd <= tstop.jd)

\* a non-forced result with several nights whose last visibility window
\* ends at the data stop, while the night and the period above the horizon
\* go on after it with no Moon veto
C22_Witness ==
  /\ Returned /\ ~force_vis
  /\ Len(t_twilight) >= 2
  /\ t_true # NoWindow
  /\ Last(t_true)[2] = tstop
  /\ Covers(t_twilight, tstop.jd + 1)
  /\ Covers(t_event, tstop.jd + 1)
  /\ ~CoversJd(t_moon_veto, tstop.jd + 1)

\* The number of ticks of the windows of a list
RECURSIVE NTicks(_)
NTicks(windows) ==
  IF Len(windows) = 0 THEN 0
  ELSE Len(windows[1]) + NTicks(Tail(windows))

\* C28 : in a non-forced compute that returns, the last night of the list
\* starts at or after the data stop, whatever skip is; so the data stop is
\* not moved and it is added to the ticks, next to the start of the data
\* and to the bounds of the night, horizon and Moon veto windows.
C28_LastNightPastStop ==
  [][(pc = "merge" /\ pc' = "done" /\ ~force_vis) =>
       /\ Last(t_night)[1] >= tstop.jd
       /\ tstop' = tstop
       /\ \E i \in 1..Len(ticks') : ticks'[i] = tstop.jd
       /\ Len(ticks') = 2 + NTicks(t_night) + NTicks(t_above)
                          + NTicks(t_moon_veto)]_vars

\* a compute that omitted the first night has returned, the night it kept
\* starting after a data stop that is later than the trigger
C28_Witness ==
  /\ Returned /\ ~force_vis
  /\ skip >= 1
  /\ inight >= 2
  /\ tstart.jd < tstop.jd
  /\ Last(t_night)[1] > tstop.jd

\* The middle of ticks i and i + 1 of the result is in the data, in a
\* night, in a period above the horizon and in no confirmed Moon veto
Qualifies(i) ==
  LET m == (ticks[i] + ticks[i + 1]) \div 2
  IN  /\ InData(m)
      /\ CoversJd(t_night, m)
      /\ CoversJd(t_above, m)
      /\ ~CoversJd(t_moon_veto, m)

\* The qualifying pairs of ticks from tick i on, in the order of the ticks
RECURSIVE Emitted(_)
Emitted(i) ==
  IF i >= Len(ticks) THEN <<>>
  ELSE (IF Qualifies(i) THEN << <<ticks[i], ticks[i + 1]>> >> ELSE <<>>)
       \o Emitted(i + 1)

\* C23 : the ticks are sorted and the sweep emits exactly one window per
\* pair of consecutive ticks whose middle is bright, dark, above and not
\* vetoed, bounded by the two ticks, in the order of the ticks; pairs that
\* follow each other are not joined, they give two windows sharing an end.
C23_OneWindowPerPair ==
  Returned =>
    /\ \A i \in 1..(Len(ticks) - 1) : ticks[i] <= ticks[i + 1]
    /\ t_vis = Emitted(1)
    /\ IF Len(t_vis) = 0 THEN t_true = NoWindow
       ELSE /\ Len(t_true) = Len(t_vis)
            /\ \A k \in 1..Len(t_vis) :
                 t_true[k] = <<Time(t_vis[k][1]), Time(t_vis[k][2])>>

\* two pairs of ticks that follow each other gave two visibility windows
\* sharing an end, the second of non-zero length, after a pair of ticks
\* that gave none
C23_Witness ==
  /\ Returned /\ ~force_vis
  /\ t_true # NoWindow
  /\ ~Qualifies(1)
  /\ \E k \in 1..(Len(t_true) - 1) :
       /\ t_true[k][2] = t_true[k + 1][1]
       /\ t_true[k + 1][1].jd < t_true[k + 1][2].jd

\* start <= t <= end for at least one window of a list in jd, none if the
\* list is the list of one empty pair
Inside(windows, t) ==
  /\ Len(windows[1]) = 2
  /\ \E k \in 1..Len(windows) : windows[k][1] <= t /\ t <= windows[k][2]

\* C24 : the containment test is start <= t <= end for at least one window
\* and is false on a category without window, so that dark and above are
\* then false and not_vetoed true : without a window above the horizon the
\* sweep emits nothing, and without a Moon veto window a pair of ticks is
\* emitted as soon as its middle is in the data, in a night and above the
\* horizon.
C24_Containment ==
  Returned =>
    /\ \A t \in Instants :
         /\ ~valid(t, NoWindow)
         /\ valid(t, t_night) <=> Inside(t_night, t)
         /\ valid(t, t_above) <=> Inside(t_above, t)
         /\ valid(t, t_moon_veto) <=> Inside(t_moon_veto, t)
    /\ t_above = NoWindow => (t_vis = <<>> /\ t_true = NoWindow)
    /\ t_moon_veto = NoWindow =>
         \A i \in 1..(Len(ticks) - 1) :
           LET m == (ticks[i] + ticks[i + 1]) \div 2
           IN  (\E k \in 1..Len(t_vis) :
                  t_vis[k] = <<ticks[i], ticks[i + 1]>>) <=>
                 (InData(m) /\ Inside(t_night, m) /\ Inside(t_above, m))

\* the Moon was up but no period was confirmed, and a window was emitted
\* for a pair of equal ticks that are the start of the period above the
\* horizon : its middle is on the bound of that period
C24_Witness ==
  /\ Returned /\ ~force_vis
  /\ t_moon_alt_veto # NoWindow /\ t_moon_veto = NoWindow
  /\ \E k \in 1..Len(t_vis) :
       /\ t_vis[k][1] = t_vis[k][2]
       /\ \E j \in 1..Len(t_above) : t_above[j][1] = t_vis[k][1]

\* C26 : the sweep loses no observable time.  Every instant of the data
\* window of the result that is in a night window, in a window above the
\* horizon and in no confirmed Moon veto window is in a true-visibility
\* window.
C26_MergeComplete ==
  Returned =>
    \A t \in Instants :
      (/\ InData(t)
       /\ Covers(t_twilight, t)
       /\ Covers(t_event, t)
       /\ ~CoversJd(t_moon_veto, t)) => Covers(t_true, t)

\* a night ends at the instant where the target rises, inside the data and
\* away from any Moon veto : that instant is observable and no other
\* instant around it is
C26_Witness ==
  /\ Returned /\ ~force_vis
  /\ t_event # NoWindow
  /\ \E t \in Instants :
       /\ tstart.jd < t /\ t < tstop.jd
       /\ \E i \in 1..Len(t_twilight) : t_twilight[i][2].jd = t
       /\ \E j \in 1..Len(t_event) : t_event[j][1].jd = t
       /\ ~CoversJd(t_moon_veto, t)
       /\ Covers(t_true, t)
       /\ ~Covers(t_true, t - 1) /\ ~Covers(t_true, t + 1)

\* C27 : every true-visibility window of the result has start < end and no
\* window appears twice in the list.
C27_PositiveDistinct ==
  (Returned /\ t_true # NoWindow) =>
    /\ \A i \in 1..Len(t_true) : t_true[i][1].jd < t_true[i][2].jd
    /\ \A i, j \in 1..Len(t_true) : t_true[i] = t_true[j] => i = j

\* A list of the object (pairs of Time) is the list of one empty pair or is
\* made of pairs only
MarkerOrPairs(windows) ==
  /\ Len(windows) >= 1
  /\ \/ windows = NoWindow
     \/ \A i \in 1..Len(windows) : Len(windows[i]) = 2

\* C29 : on the object, from construction on and after compute, forced or
\* not, each of t_twilight, t_event, t_moon_up and t_true is the list of one
\* empty pair or a list of [start, end] pairs; it is never the empty list
\* and never mixes the empty pair with windows.
C29_MarkerOrPairs ==
  /\ MarkerOrPairs(t_twilight)
  /\ MarkerOrPairs(t_event)
  /\ MarkerOrPairs(t_moon_up)
  /\ MarkerOrPairs(t_true)

\* a non-forced result without visibility window, with no window above the
\* horizon, and with several nights and several Moon periods
C29_Witness ==
  /\ Returned /\ ~force_vis
  /\ t_true = NoWindow /\ t_event = NoWindow
  /\ Len(t_twilight) >= 2
  /\ Len(t_moon_up) >= 2

====
